---- MODULE Spec2Model ----
(***************************************************************************)
(* Quote engine of the sales-quoting service: the quote / quote-line       *)
(* aggregate, its status life cycle and the idempotency ledger of          *)
(* app/crud.py over the tables of app/models.py.                           *)
(*                                                                         *)
(* Money is in cents, discount_pct in hundredths (1.0 is DiscountOne).     *)
(* An Optional value is a record [some, v]; an Optional id or key is 0 or  *)
(* "" when absent, which is what the code's truthiness tests look at.      *)
(***************************************************************************)
EXTENDS Integers, Sequences, FiniteSets, TLC

VARIABLES accounts, pricebooks, skus, quotes, quote_lines, idempotency_keys,
          now, ret, hist, sess

vars == <<accounts, pricebooks, skus, quotes, quote_lines, idempotency_keys,
          now, ret, hist, sess>>

catalog == <<accounts, pricebooks, skus>>
store == <<quotes, quote_lines, idempotency_keys>>

----------------------------------------------------------------------------
\* Bounds of the model.

MaxQuotes == 2
MaxLines == 2
MaxCalls == 2

----------------------------------------------------------------------------
\* Values.

None == [some |-> FALSE, v |-> 0]
Some(x) == [some |-> TRUE, v |-> x]

DiscountOne == 100
TtlHours == 24

Max(S) == IF S = {} THEN 0 ELSE CHOOSE x \in S : \A y \in S : y <= x

\* An INTEGER PRIMARY KEY of the default sqlite store: one more than the
\* largest id in the table, so the id of a deleted last row is given again.
NextId(ids) == Max(ids) + 1

Remove(f, k) == [x \in DOMAIN f \ {k} |-> f[x]]

LinesOf(lineTable, q) == {i \in DOMAIN lineTable : lineTable[i].quote_id = q}

----------------------------------------------------------------------------
\* Idempotency ledger (crud.py, IDEMPOTENCY FUNCTIONS) over the
\* idempotency_keys table. IdempotencyKeyColumns are the attributes the
\* mapped class declares; a query or a constructor naming any other
\* attribute raises before it reaches the store.

\* The attributes the ledger functions of crud.py name.
IdempotencyKeyColumnsUsed ==
    {"id", "key", "created_at", "resource_type", "resource_id", "expires_at"}

IdempotencyKeyColumns == {"id", "key", "created_at"}

cleanup_expired_idempotency_keys(ledger, t) ==
    IF "expires_at" \notin IdempotencyKeyColumns
    THEN [raised |-> "AttributeError", ledger |-> ledger]
    ELSE [raised |-> "", ledger |-> {r \in ledger : ~(r.expires_at < t)}]

check_idempotency_key(ledger, key, t) ==
    IF key = ""
    THEN [raised |-> "", value |-> 0, ledger |-> ledger]
    ELSE LET c == cleanup_expired_idempotency_keys(ledger, t)
             found == {r \in c.ledger : r.key = key}
         IN  IF c.raised # ""
             THEN [raised |-> c.raised, value |-> 0, ledger |-> ledger]
             ELSE [raised |-> "",
                   value |-> IF found = {} THEN 0
                             ELSE (CHOOSE r \in found : TRUE).resource_id,
                   ledger |-> c.ledger]

\* The row is added to the caller's open transaction and committed with it;
\* a key already in the table violates the unique index, the transaction is
\* rolled back and the IntegrityError becomes a ValueError.
store_idempotency_key(ledger, key, resource_type, resource_id, t) ==
    IF key = "" \/ resource_type = "" \/ resource_id = 0
    THEN [raised |-> "invalid_idempotency_params", ledger |-> ledger]
    ELSE IF ~({"resource_type", "resource_id", "expires_at"} \subseteq IdempotencyKeyColumns)
    THEN [raised |-> "TypeError", ledger |-> ledger]
    ELSE IF \E r \in ledger : r.key = key
    THEN [raised |-> "idempotency_conflict", ledger |-> ledger]
    ELSE [raised |-> "",
          ledger |-> ledger \cup {[key |-> key, resource_type |-> resource_type,
                                   resource_id |-> resource_id,
                                   expires_at |-> t + TtlHours]}]

----------------------------------------------------------------------------
\* create_quote, piecewise.

\* The line count looked at before the two ids.
CheckArgsLinesFirst(account_id, pricebook_id, lines) ==
    IF Len(lines) = 0 THEN "no_lines"
    ELSE IF account_id <= 0 THEN "invalid_account_id"
    ELSE IF pricebook_id <= 0 THEN "invalid_pricebook_id"
    ELSE "ok"

\* crud.py 543-550
CheckArgs(account_id, pricebook_id, lines) ==
    IF account_id <= 0 THEN "invalid_account_id"
    ELSE IF pricebook_id <= 0 THEN "invalid_pricebook_id"
    ELSE IF Len(lines) = 0 THEN "no_lines"
    ELSE "ok"

\* crud.py 552-563: the ledger is consulted; a hit whose quote is gone has
\* its row deleted (and that delete committed) and counts as a miss.
IdempotencyStep(quoteTable, ledger, key, t) ==
    LET c == check_idempotency_key(ledger, key, t)
    IN  IF key = "" THEN [raised |-> "", hit |-> 0, ledger |-> ledger]
        ELSE IF c.raised # "" THEN [raised |-> c.raised, hit |-> 0, ledger |-> ledger]
        ELSE IF c.value = 0 THEN [raised |-> "", hit |-> 0, ledger |-> c.ledger]
        ELSE IF c.value \in DOMAIN quoteTable
        THEN [raised |-> "", hit |-> c.value, ledger |-> c.ledger]
        ELSE [raised |-> "", hit |-> 0,
              ledger |-> {r \in c.ledger : r.key # key}]

SkuInPricebook(skuTable, sku_id, pricebook_id) ==
    sku_id \in DOMAIN skuTable /\ skuTable[sku_id].pricebook_id = pricebook_id

\* crud.py 576-595: first failing line, first failing check of that line.
RECURSIVE ValidateLines(_, _, _)
ValidateLines(lines, pricebook_id, skuTable) ==
    IF lines = <<>> THEN "ok"
    ELSE LET line == Head(lines)
         IN  IF line.sku_id <= 0 THEN "invalid_sku_id"
             ELSE IF line.qty <= 0 THEN "invalid_qty"
             ELSE IF line.discount_pct < 0 \/ line.discount_pct >= DiscountOne
             THEN "invalid_discount"
             ELSE IF ~SkuInPricebook(skuTable, line.sku_id, pricebook_id)
             THEN "sku_not_in_pricebook"
             ELSE ValidateLines(Tail(lines), pricebook_id, skuTable)

\* crud.py 565-595
ValidateRequest(accountSet, pricebookTable, skuTable, account_id, pricebook_id, lines) ==
    IF account_id \notin accountSet THEN "account_not_found"
    ELSE IF pricebook_id \notin DOMAIN pricebookTable THEN "pricebook_not_found"
    ELSE ValidateLines(lines, pricebook_id, skuTable)

\* crud.py 611-620: the line row, its price the override or the SKU's price now.
NewLine(skuTable, quote_id, line) ==
    [quote_id |-> quote_id, sku_id |-> line.sku_id, qty |-> line.qty,
     unit_price |-> IF line.unit_price.some THEN line.unit_price
                    ELSE Some(skuTable[line.sku_id].unit_price),
     discount_pct |-> line.discount_pct]

\* crud.py 609-621: one row per requested line, ids in request order.
RECURSIVE InsertLines(_, _, _, _)
InsertLines(lineTable, skuTable, quote_id, lines) ==
    IF lines = <<>> THEN lineTable
    ELSE InsertLines(lineTable @@ (NextId(DOMAIN lineTable) :> NewLine(skuTable, quote_id, Head(lines))),
                     skuTable, quote_id, Tail(lines))

\* crud.py 597-602
NewQuote(account_id, pricebook_id) ==
    [account_id |-> account_id, pricebook_id |-> pricebook_id, status |-> "draft"]

Result(outcome, id, quoteTable, lineTable, ledger) ==
    [outcome |-> outcome, id |-> id, quotes |-> quoteTable,
     quote_lines |-> lineTable, idempotency_keys |-> ledger]

\* crud.py 541-635, one call run to completion.
create_quote(account_id, pricebook_id, lines, key) ==
    LET args == CheckArgs(account_id, pricebook_id, lines)
        idem == IdempotencyStep(quotes, idempotency_keys, key, now)
        valid == ValidateRequest(accounts, pricebooks, skus, account_id, pricebook_id, lines)
        qid == NextId(DOMAIN quotes)
        stored == IF key = "" THEN [raised |-> "", ledger |-> idem.ledger]
                  ELSE store_idempotency_key(idem.ledger, key, "quote", qid, now)
    IN  IF args # "ok"
        THEN Result(args, 0, quotes, quote_lines, idempotency_keys)
        ELSE IF idem.raised # ""
        THEN Result(idem.raised, 0, quotes, quote_lines, idempotency_keys)
        ELSE IF idem.hit # 0
        THEN Result("ok", idem.hit, quotes, quote_lines, idem.ledger)
        ELSE IF valid # "ok"
        THEN Result(valid, 0, quotes, quote_lines, idem.ledger)
        ELSE IF stored.raised # ""
        THEN Result(stored.raised, 0, quotes, quote_lines, idem.ledger)
        ELSE Result("ok", qid,
                    quotes @@ (qid :> NewQuote(account_id, pricebook_id)),
                    InsertLines(quote_lines, skus, qid, lines),
                    stored.ledger)

----------------------------------------------------------------------------
\* Quote life cycle and line edits. Each returns [outcome, id, <table>]:
\* outcome "ok", "not_found" (the function returned None / False) or the
\* ValueError raised.

\* The guard on accepted quotes left out.
update_quote_status_unguarded(quote_id, status) ==
    IF quote_id <= 0
    THEN [outcome |-> "invalid_quote_id", id |-> 0, quotes |-> quotes]
    ELSE IF quote_id \notin DOMAIN quotes
    THEN [outcome |-> "not_found", id |-> 0, quotes |-> quotes]
    ELSE [outcome |-> "ok", id |-> quote_id,
          quotes |-> [quotes EXCEPT ![quote_id].status = status]]

\* The guard refusing every call on an accepted quote.
update_quote_status_strict(quote_id, status) ==
    IF quote_id <= 0
    THEN [outcome |-> "invalid_quote_id", id |-> 0, quotes |-> quotes]
    ELSE IF quote_id \notin DOMAIN quotes
    THEN [outcome |-> "not_found", id |-> 0, quotes |-> quotes]
    ELSE IF quotes[quote_id].status = "accepted"
    THEN [outcome |-> "invalid_transition", id |-> 0, quotes |-> quotes]
    ELSE [outcome |-> "ok", id |-> quote_id,
          quotes |-> [quotes EXCEPT ![quote_id].status = status]]

\* The guard refusing a step back from sent to draft as well.
update_quote_status_forward(quote_id, status) ==
    IF quote_id <= 0
    THEN [outcome |-> "invalid_quote_id", id |-> 0, quotes |-> quotes]
    ELSE IF quote_id \notin DOMAIN quotes
    THEN [outcome |-> "not_found", id |-> 0, quotes |-> quotes]
    ELSE IF quotes[quote_id].status = "accepted" /\ status # "accepted"
    THEN [outcome |-> "invalid_transition", id |-> 0, quotes |-> quotes]
    ELSE IF quotes[quote_id].status = "sent" /\ status = "draft"
    THEN [outcome |-> "invalid_transition", id |-> 0, quotes |-> quotes]
    ELSE [outcome |-> "ok", id |-> quote_id,
          quotes |-> [quotes EXCEPT ![quote_id].status = status]]

\* crud.py 697-721
update_quote_status(quote_id, status) ==
    IF quote_id <= 0
    THEN [outcome |-> "invalid_quote_id", id |-> 0, quotes |-> quotes]
    ELSE IF quote_id \notin DOMAIN quotes
    THEN [outcome |-> "not_found", id |-> 0, quotes |-> quotes]
    ELSE IF quotes[quote_id].status = "accepted" /\ status # "accepted"
    THEN [outcome |-> "invalid_transition", id |-> 0, quotes |-> quotes]
    ELSE [outcome |-> "ok", id |-> quote_id,
          quotes |-> [quotes EXCEPT ![quote_id].status = status]]

\* The quote deleted without its lines.
delete_quote_keeping_lines(quote_id) ==
    IF quote_id <= 0
    THEN [outcome |-> "invalid_quote_id", quotes |-> quotes, quote_lines |-> quote_lines]
    ELSE IF quote_id \notin DOMAIN quotes
    THEN [outcome |-> "not_found", quotes |-> quotes, quote_lines |-> quote_lines]
    ELSE IF quotes[quote_id].status # "draft"
    THEN [outcome |-> "not_deletable", quotes |-> quotes, quote_lines |-> quote_lines]
    ELSE [outcome |-> "ok", quotes |-> Remove(quotes, quote_id), quote_lines |-> quote_lines]

\* crud.py 724-747: the lines, then the quote; the ledger is not touched.
delete_quote(quote_id) ==
    IF quote_id <= 0
    THEN [outcome |-> "invalid_quote_id", quotes |-> quotes, quote_lines |-> quote_lines]
    ELSE IF quote_id \notin DOMAIN quotes
    THEN [outcome |-> "not_found", quotes |-> quotes, quote_lines |-> quote_lines]
    ELSE IF quotes[quote_id].status # "draft"
    THEN [outcome |-> "not_deletable", quotes |-> quotes, quote_lines |-> quote_lines]
    ELSE [outcome |-> "ok", quotes |-> Remove(quotes, quote_id),
          quote_lines |-> [i \in DOMAIN quote_lines \ LinesOf(quote_lines, quote_id)
                             |-> quote_lines[i]]]

\* The status check left out.
add_quote_line_any_status(quote_id, line) ==
    IF quote_id <= 0
    THEN [outcome |-> "invalid_quote_id", id |-> 0, quote_lines |-> quote_lines]
    ELSE IF line.sku_id <= 0
    THEN [outcome |-> "invalid_sku_id", id |-> 0, quote_lines |-> quote_lines]
    ELSE IF quote_id \notin DOMAIN quotes
    THEN [outcome |-> "quote_not_found", id |-> 0, quote_lines |-> quote_lines]
    ELSE IF ~SkuInPricebook(skus, line.sku_id, quotes[quote_id].pricebook_id)
    THEN [outcome |-> "sku_not_in_pricebook", id |-> 0, quote_lines |-> quote_lines]
    ELSE [outcome |-> "ok", id |-> NextId(DOMAIN quote_lines),
          quote_lines |-> quote_lines @@
              (NextId(DOMAIN quote_lines) :> NewLine(skus, quote_id, line))]

\* crud.py 754-809
add_quote_line(quote_id, line) ==
    IF quote_id <= 0
    THEN [outcome |-> "invalid_quote_id", id |-> 0, quote_lines |-> quote_lines]
    ELSE IF line.sku_id <= 0
    THEN [outcome |-> "invalid_sku_id", id |-> 0, quote_lines |-> quote_lines]
    ELSE IF line.qty <= 0
    THEN [outcome |-> "invalid_qty", id |-> 0, quote_lines |-> quote_lines]
    ELSE IF line.discount_pct < 0 \/ line.discount_pct >= DiscountOne
    THEN [outcome |-> "invalid_discount", id |-> 0, quote_lines |-> quote_lines]
    ELSE IF quote_id \notin DOMAIN quotes
    THEN [outcome |-> "quote_not_found", id |-> 0, quote_lines |-> quote_lines]
    ELSE IF quotes[quote_id].status # "draft"
    THEN [outcome |-> "not_editable", id |-> 0, quote_lines |-> quote_lines]
    ELSE IF ~SkuInPricebook(skus, line.sku_id, quotes[quote_id].pricebook_id)
    THEN [outcome |-> "sku_not_in_pricebook", id |-> 0, quote_lines |-> quote_lines]
    ELSE [outcome |-> "ok", id |-> NextId(DOMAIN quote_lines),
          quote_lines |-> quote_lines @@
              (NextId(DOMAIN quote_lines) :> NewLine(skus, quote_id, line))]

\* crud.py 831-834, 859-862
Editable(line_id) ==
    /\ quote_lines[line_id].quote_id \in DOMAIN quotes
    /\ quotes[quote_lines[line_id].quote_id].status = "draft"

\* crud.py 812-847: qty, unit_price and discount_pct are overwritten with the
\* request's values (unit_price with None when the request has none); the
\* line keeps its sku_id.
\* The status of the line's quote not looked at.
update_quote_line_any_status(line_id, line) ==
    IF line_id <= 0
    THEN [outcome |-> "invalid_line_id", id |-> 0, quote_lines |-> quote_lines]
    ELSE IF line.qty <= 0
    THEN [outcome |-> "invalid_qty", id |-> 0, quote_lines |-> quote_lines]
    ELSE IF line.discount_pct < 0 \/ line.discount_pct >= DiscountOne
    THEN [outcome |-> "invalid_discount", id |-> 0, quote_lines |-> quote_lines]
    ELSE IF line_id \notin DOMAIN quote_lines
    THEN [outcome |-> "not_found", id |-> 0, quote_lines |-> quote_lines]
    ELSE [outcome |-> "ok", id |-> line_id,
          quote_lines |-> [quote_lines EXCEPT ![line_id] =
              [@ EXCEPT !.qty = line.qty, !.unit_price = line.unit_price,
                        !.discount_pct = line.discount_pct]]]

update_quote_line(line_id, line) ==
    IF line_id <= 0
    THEN [outcome |-> "invalid_line_id", id |-> 0, quote_lines |-> quote_lines]
    ELSE IF line.qty <= 0
    THEN [outcome |-> "invalid_qty", id |-> 0, quote_lines |-> quote_lines]
    ELSE IF line.discount_pct < 0 \/ line.discount_pct >= DiscountOne
    THEN [outcome |-> "invalid_discount", id |-> 0, quote_lines |-> quote_lines]
    ELSE IF line_id \notin DOMAIN quote_lines
    THEN [outcome |-> "not_found", id |-> 0, quote_lines |-> quote_lines]
    ELSE IF ~Editable(line_id)
    THEN [outcome |-> "not_editable", id |-> 0, quote_lines |-> quote_lines]
    ELSE [outcome |-> "ok", id |-> line_id,
          quote_lines |-> [quote_lines EXCEPT ![line_id] =
              [@ EXCEPT !.qty = line.qty, !.unit_price = line.unit_price,
                        !.discount_pct = line.discount_pct]]]

\* crud.py 850-870
delete_quote_line(line_id) ==
    IF line_id <= 0
    THEN [outcome |-> "invalid_line_id", id |-> 0, quote_lines |-> quote_lines]
    ELSE IF line_id \notin DOMAIN quote_lines
    THEN [outcome |-> "not_found", id |-> 0, quote_lines |-> quote_lines]
    ELSE IF ~Editable(line_id)
    THEN [outcome |-> "not_editable", id |-> 0, quote_lines |-> quote_lines]
    ELSE [outcome |-> "ok", id |-> line_id, quote_lines |-> Remove(quote_lines, line_id)]

----------------------------------------------------------------------------
\* Catalog: SKUs.

\* crud.py 145-164: quotes are the quotes whose account_id is this account's
\* id (models.py 24-25).
delete_account(account_id) ==
    IF account_id <= 0 THEN [outcome |-> "invalid_account_id", accounts |-> accounts]
    ELSE IF account_id \notin accounts THEN [outcome |-> "not_found", accounts |-> accounts]
    ELSE IF \E q \in DOMAIN quotes : quotes[q].account_id = account_id
    THEN [outcome |-> "in_use", accounts |-> accounts]
    ELSE [outcome |-> "ok", accounts |-> accounts \ {account_id}]

\* crud.py 327-380: the checks in the code's order, then a row with the next
\* id. Codes and names are compared and stored stripped; "" is an empty or
\* blank one.
create_sku(data) ==
    LET id == NextId(DOMAIN skus)
    IN  IF data.code = "" THEN [outcome |-> "invalid_code", id |-> 0, skus |-> skus]
        ELSE IF data.name = "" THEN [outcome |-> "invalid_name", id |-> 0, skus |-> skus]
        ELSE IF data.pricebook_id <= 0
        THEN [outcome |-> "invalid_pricebook_id", id |-> 0, skus |-> skus]
        ELSE IF data.unit_price < 0
        THEN [outcome |-> "invalid_unit_price", id |-> 0, skus |-> skus]
        ELSE IF data.pricebook_id \notin DOMAIN pricebooks
        THEN [outcome |-> "pricebook_not_found", id |-> 0, skus |-> skus]
        ELSE IF \E o \in DOMAIN skus :
                    skus[o].code = data.code /\ skus[o].pricebook_id = data.pricebook_id
        THEN [outcome |-> "duplicate_code", id |-> 0, skus |-> skus]
        ELSE IF data.parent_sku_id # 0 /\ data.parent_sku_id \notin DOMAIN skus
        THEN [outcome |-> "parent_not_found", id |-> 0, skus |-> skus]
        ELSE [outcome |-> "ok", id |-> id, skus |-> skus @@ (id :> data)]

\* The SKU deleted whatever refers to it.
delete_sku_unreferenced(sku_id) ==
    IF sku_id <= 0 THEN [outcome |-> "invalid_sku_id", skus |-> skus]
    ELSE IF sku_id \notin DOMAIN skus THEN [outcome |-> "not_found", skus |-> skus]
    ELSE [outcome |-> "ok", skus |-> Remove(skus, sku_id)]

\* crud.py 515-534: quote_lines and child_skus are the rows whose sku_id and
\* parent_sku_id is this SKU's id (models.py 59-62).
delete_sku(sku_id) ==
    IF sku_id <= 0 THEN [outcome |-> "invalid_sku_id", skus |-> skus]
    ELSE IF sku_id \notin DOMAIN skus THEN [outcome |-> "not_found", skus |-> skus]
    ELSE IF \/ \E i \in DOMAIN quote_lines : quote_lines[i].sku_id = sku_id
            \/ \E o \in DOMAIN skus : skus[o].parent_sku_id = sku_id
    THEN [outcome |-> "in_use", skus |-> skus]
    ELSE [outcome |-> "ok", skus |-> Remove(skus, sku_id)]

\* crud.py 447-512: the checks in the code's order, then the row is overwritten
\* with the request (attributes are stored unchecked).
update_sku(sku_id, data) ==
    IF sku_id <= 0 THEN [outcome |-> "invalid_sku_id", skus |-> skus]
    ELSE IF data.code = "" THEN [outcome |-> "invalid_code", skus |-> skus]
    ELSE IF data.name = "" THEN [outcome |-> "invalid_name", skus |-> skus]
    ELSE IF data.pricebook_id <= 0 THEN [outcome |-> "invalid_pricebook_id", skus |-> skus]
    ELSE IF data.unit_price < 0 THEN [outcome |-> "invalid_unit_price", skus |-> skus]
    ELSE IF sku_id \notin DOMAIN skus THEN [outcome |-> "not_found", skus |-> skus]
    ELSE IF data.pricebook_id \notin DOMAIN pricebooks
    THEN [outcome |-> "pricebook_not_found", skus |-> skus]
    ELSE IF \E o \in DOMAIN skus \ {sku_id} :
                skus[o].code = data.code /\ skus[o].pricebook_id = data.pricebook_id
    THEN [outcome |-> "duplicate_code", skus |-> skus]
    ELSE IF data.parent_sku_id # 0 /\ data.parent_sku_id = sku_id
    THEN [outcome |-> "own_parent", skus |-> skus]
    ELSE IF data.parent_sku_id # 0 /\ data.parent_sku_id \notin DOMAIN skus
    THEN [outcome |-> "parent_not_found", skus |-> skus]
    ELSE [outcome |-> "ok", skus |-> [skus EXCEPT ![sku_id] = data]]

----------------------------------------------------------------------------
\* Catalog: pricebooks. A name or currency that is empty after strip() is "".

\* crud.py 188-191, 282-285: every default pricebook loses the flag.
UnsetDefaults(pricebookTable) ==
    [p \in DOMAIN pricebookTable |-> [pricebookTable[p] EXCEPT !.is_default = FALSE]]

\* crud.py 171-206
create_pricebook(data) ==
    IF data.name = "" THEN [outcome |-> "invalid_name", id |-> 0, pricebooks |-> pricebooks]
    ELSE IF data.currency = ""
    THEN [outcome |-> "invalid_currency", id |-> 0, pricebooks |-> pricebooks]
    ELSE IF \E o \in DOMAIN pricebooks : pricebooks[o].name = data.name
    THEN [outcome |-> "duplicate_name", id |-> 0, pricebooks |-> pricebooks]
    ELSE [outcome |-> "ok", id |-> NextId(DOMAIN pricebooks),
          pricebooks |-> (IF data.is_default THEN UnsetDefaults(pricebooks) ELSE pricebooks)
                         @@ (NextId(DOMAIN pricebooks) :> data)]

\* The other defaults left as they are.
update_pricebook_keeping_defaults(pricebook_id, data) ==
    IF pricebook_id <= 0
    THEN [outcome |-> "invalid_pricebook_id", id |-> 0, pricebooks |-> pricebooks]
    ELSE IF data.name = "" THEN [outcome |-> "invalid_name", id |-> 0, pricebooks |-> pricebooks]
    ELSE IF data.currency = ""
    THEN [outcome |-> "invalid_currency", id |-> 0, pricebooks |-> pricebooks]
    ELSE IF pricebook_id \notin DOMAIN pricebooks
    THEN [outcome |-> "not_found", id |-> 0, pricebooks |-> pricebooks]
    ELSE IF \E o \in DOMAIN pricebooks \ {pricebook_id} : pricebooks[o].name = data.name
    THEN [outcome |-> "duplicate_name", id |-> 0, pricebooks |-> pricebooks]
    ELSE [outcome |-> "ok", id |-> pricebook_id,
          pricebooks |-> [pricebooks EXCEPT ![pricebook_id] = data]]

\* crud.py 251-298
update_pricebook(pricebook_id, data) ==
    IF pricebook_id <= 0
    THEN [outcome |-> "invalid_pricebook_id", id |-> 0, pricebooks |-> pricebooks]
    ELSE IF data.name = "" THEN [outcome |-> "invalid_name", id |-> 0, pricebooks |-> pricebooks]
    ELSE IF data.currency = ""
    THEN [outcome |-> "invalid_currency", id |-> 0, pricebooks |-> pricebooks]
    ELSE IF pricebook_id \notin DOMAIN pricebooks
    THEN [outcome |-> "not_found", id |-> 0, pricebooks |-> pricebooks]
    ELSE IF \E o \in DOMAIN pricebooks \ {pricebook_id} : pricebooks[o].name = data.name
    THEN [outcome |-> "duplicate_name", id |-> 0, pricebooks |-> pricebooks]
    ELSE [outcome |-> "ok", id |-> pricebook_id,
          pricebooks |-> [(IF data.is_default /\ ~pricebooks[pricebook_id].is_default
                           THEN UnsetDefaults(pricebooks) ELSE pricebooks)
                          EXCEPT ![pricebook_id] = data]]

\* crud.py 301-320: refused while a SKU or a quote names the pricebook.
delete_pricebook(pricebook_id) ==
    IF pricebook_id <= 0 THEN [outcome |-> "invalid_pricebook_id", pricebooks |-> pricebooks]
    ELSE IF pricebook_id \notin DOMAIN pricebooks
    THEN [outcome |-> "not_found", pricebooks |-> pricebooks]
    ELSE IF \/ \E k \in DOMAIN skus : skus[k].pricebook_id = pricebook_id
            \/ \E q \in DOMAIN quotes : quotes[q].pricebook_id = pricebook_id
    THEN [outcome |-> "in_use", pricebooks |-> pricebooks]
    ELSE [outcome |-> "ok", pricebooks |-> Remove(pricebooks, pricebook_id)]

----------------------------------------------------------------------------
\* The calls a client makes. ret describes the last completed call.

\* op and its arguments (quote_id: the quote concerned, status: the status
\* asked for, lines: the lines of a request that created a quote), what it
\* returned (outcome, id) and, for update_quote_status, the status the quote
\* had when the call began (was).
Ret(op, outcome, id, quote_id, status, lines) ==
    [op |-> op, outcome |-> outcome, id |-> id, quote_id |-> quote_id,
     status |-> status, lines |-> lines,
     was |-> IF op = "update_quote_status" /\ quote_id \in DOMAIN quotes
             THEN quotes[quote_id].status ELSE ""]

Line(sku_id, qty, unit_price, discount_pct) ==
    [sku_id |-> sku_id, qty |-> qty, unit_price |-> unit_price,
     discount_pct |-> discount_pct]

\* models.py 44-57: the attributes map as the three keys the deriver reads
\* (term_months 0: no such key).
NoAttributes == [is_required_option |-> FALSE, is_subscription |-> FALSE, term_months |-> 0]

\* A SKU row named after its code, with no attributes.
Sku(code, pricebook_id, unit_price, parent_sku_id) ==
    [code |-> code, pricebook_id |-> pricebook_id, unit_price |-> unit_price,
     parent_sku_id |-> parent_sku_id, name |-> code, attributes |-> NoAttributes]

Pricebook(name, currency, is_default) ==
    [name |-> name, currency |-> currency, is_default |-> is_default]

Procs == {"p1", "p2"}

\* A client's create_quote call in progress: the request, where the call has
\* got to (pc), the id of the quote row it has flushed and the line rows it
\* has added to its transaction, what it returned, and whether another call
\* was in progress at any time during it (raced).
Session(pc, account_id, pricebook_id, lines, key, qid, pending, outcome, id, raced) ==
    [pc |-> pc, account_id |-> account_id, pricebook_id |-> pricebook_id,
     lines |-> lines, key |-> key, qid |-> qid, pending |-> pending,
     outcome |-> outcome, id |-> id, raced |-> raced]

IdleSession == Session("idle", 0, 0, << >>, "", 0, << >>, "", 0, FALSE)

Init ==
    /\ accounts = {1}
    /\ pricebooks = (1 :> Pricebook("Standard", "USD", TRUE))
                    @@ (2 :> Pricebook("European", "EUR", FALSE))
    /\ skus = (1 :> Sku("WIDGET", 1, 1000, 0)) @@ (2 :> Sku("GADGET", 2, 2000, 0))
    /\ quotes = << >>
    /\ quote_lines = << >>
    /\ idempotency_keys = {}
    /\ now = 0
    /\ ret = [op |-> "", outcome |-> "", id |-> 0, quote_id |-> 0, status |-> "",
              lines |-> << >>, was |-> ""]
    /\ hist = << >>
    /\ sess = [s \in Procs |-> IdleSession]

CreateQuoteOp(account_id, pricebook_id, lines, key) ==
    \E r \in {create_quote(account_id, pricebook_id, lines, key)} :
        /\ Max(DOMAIN r.quotes) <= MaxQuotes
        /\ Max(DOMAIN r.quote_lines) <= MaxLines
        /\ quotes' = r.quotes
        /\ quote_lines' = r.quote_lines
        /\ idempotency_keys' = r.idempotency_keys
        /\ ret' = Ret("create_quote", r.outcome, r.id, r.id, "",
                      IF r.outcome = "ok" THEN lines ELSE << >>)
        /\ UNCHANGED <<catalog, now, sess>>

CreateQuote(account_id, pricebook_id, lines, key) ==
    /\ CreateQuoteOp(account_id, pricebook_id, lines, key)
    /\ UNCHANGED hist

UpdateQuoteStatus(quote_id, status) ==
    \E r \in {update_quote_status(quote_id, status)} :
        /\ quotes' = r.quotes
        /\ ret' = Ret("update_quote_status", r.outcome, r.id, quote_id, status, << >>)
        /\ UNCHANGED <<catalog, quote_lines, idempotency_keys, now, hist, sess>>

DeleteQuote(quote_id) ==
    \E r \in {delete_quote(quote_id)} :
        /\ quotes' = r.quotes
        /\ quote_lines' = r.quote_lines
        /\ ret' = Ret("delete_quote", r.outcome, 0, quote_id, "", << >>)
        /\ UNCHANGED <<catalog, idempotency_keys, now, hist, sess>>

AddQuoteLine(quote_id, line) ==
    \E r \in {add_quote_line(quote_id, line)} :
        /\ Max(DOMAIN r.quote_lines) <= MaxLines
        /\ quote_lines' = r.quote_lines
        /\ ret' = Ret("add_quote_line", r.outcome, r.id, quote_id, "", << >>)
        /\ UNCHANGED <<catalog, quotes, idempotency_keys, now, hist, sess>>

UpdateQuoteLine(line_id, line) ==
    \E r \in {update_quote_line(line_id, line)} :
        /\ quote_lines' = r.quote_lines
        /\ ret' = Ret("update_quote_line", r.outcome, line_id,
                      IF line_id \in DOMAIN quote_lines
                      THEN quote_lines[line_id].quote_id ELSE 0, "", << >>)
        /\ UNCHANGED <<catalog, quotes, idempotency_keys, now, hist, sess>>

DeleteQuoteLine(line_id) ==
    \E r \in {delete_quote_line(line_id)} :
        /\ quote_lines' = r.quote_lines
        /\ ret' = Ret("delete_quote_line", r.outcome, line_id,
                      IF line_id \in DOMAIN quote_lines
                      THEN quote_lines[line_id].quote_id ELSE 0, "", << >>)
        /\ UNCHANGED <<catalog, quotes, idempotency_keys, now, hist, sess>>

UpdateSku(sku_id, data) ==
    \E r \in {update_sku(sku_id, data)} :
        /\ skus' = r.skus
        /\ ret' = Ret("update_sku", r.outcome, sku_id, 0, "", << >>)
        /\ UNCHANGED <<accounts, pricebooks, store, now, hist, sess>>

----------------------------------------------------------------------------
\* Inputs.

Statuses == {"draft", "sent", "accepted"}

SeqsUpTo(S, n) == UNION {[1..k -> S] : k \in 0..n}

\* Requests for a line: a SKU of pricebook 1 and a SKU of pricebook 2 at the
\* catalog price, a line with a price override and a discount, and a SKU id
\* that fails the id check. qty and discount_pct are within the ranges the
\* QuoteLineCreate schema admits (schemas.py 125-126).
CreateLineInputs == {Line(1, 1, None, 0), Line(2, 1, None, 0)}

LineInputs == {Line(1, 1, None, 0), Line(2, 2, Some(500), 10), Line(0, 1, None, 0)}

\* update_quote_line does not read the request's sku_id.
UpdateLineInputs == {Line(1, 2, Some(500), 10)}

QuoteIdInputs == 0..MaxQuotes
LineIdInputs == 0..MaxLines

Next ==
    \/ \E p \in DOMAIN pricebooks, l \in SeqsUpTo(CreateLineInputs, MaxLines), k \in {"", "k1"} :
           CreateQuote(1, p, l, k)
    \/ \E q \in QuoteIdInputs, s \in Statuses : UpdateQuoteStatus(q, s)
    \/ \E q \in QuoteIdInputs : DeleteQuote(q)
    \/ \E q \in QuoteIdInputs, l \in LineInputs : AddQuoteLine(q, l)
    \/ \E i \in LineIdInputs, l \in UpdateLineInputs : UpdateQuoteLine(i, l)
    \/ \E i \in LineIdInputs : DeleteQuoteLine(i)

Spec == Init /\ [][Next]_vars

----------------------------------------------------------------------------
\* create_quote calls that are logged: hist is the sequence of the completed
\* calls, each with its request, what it returned, the rows of the store
\* after it (quote_ids, line_ids, ledger) and the quotes it found (had).

CreateQuoteLogged(account_id, pricebook_id, lines, key) ==
    /\ Len(hist) < MaxCalls
    /\ CreateQuoteOp(account_id, pricebook_id, lines, key)
    /\ hist' = Append(hist, [key |-> key, account_id |-> account_id,
                             pricebook_id |-> pricebook_id, lines |-> lines,
                             outcome |-> ret'.outcome, id |-> ret'.id,
                             quote_ids |-> DOMAIN quotes',
                             line_ids |-> DOMAIN quote_lines',
                             had |-> DOMAIN quotes,
                             ledger |-> idempotency_keys'])

KeyInputs == {"", "k1", "k2"}

NextRetry ==
    \E p \in DOMAIN pricebooks, l \in SeqsUpTo(CreateLineInputs, MaxLines), k \in KeyInputs :
        CreateQuoteLogged(1, p, l, k)

SpecRetry == Init /\ [][NextRetry]_vars

----------------------------------------------------------------------------
\* Catalog changes next to quotes.

SkuInputs ==
    {Sku(c, p, u, 0) : c \in {"WIDGET", "GADGET"}, p \in {1, 2}, u \in {1000, 1500}}

NextCatalog ==
    \/ \E p \in DOMAIN pricebooks, l \in SeqsUpTo(CreateLineInputs, MaxLines) :
           CreateQuote(1, p, l, "")
    \/ \E q \in QuoteIdInputs, l \in LineInputs : AddQuoteLine(q, l)
    \/ \E k \in DOMAIN skus, d \in SkuInputs : UpdateSku(k, d)

SpecCatalog == Init /\ [][NextCatalog]_vars

----------------------------------------------------------------------------
\* Concurrent create_quote calls, one per client session. A session's
\* queries read the committed tables; its own rows are in its transaction
\* until db.commit() and are dropped by a rollback.

Busy(s) == sess[s].pc \notin {"idle", "done"}

Done(s, outcome, id) ==
    [sess EXCEPT ![s].pc = "done", ![s].outcome = outcome, ![s].id = id]

\* The flush replaced by a commit.
CommittedOnFlush(quoteTable, qid, account_id, pricebook_id) ==
    quoteTable @@ (qid :> NewQuote(account_id, pricebook_id))

\* crud.py 604-606: db.add(db_quote); db.flush() sends the INSERT inside the
\* open transaction: the row gets its id, the committed table stays as it is.
FlushedQuotes(quoteTable, qid, account_id, pricebook_id) == quoteTable

\* crud.py 543-550
CqBegin(s, account_id, pricebook_id, lines, key) ==
    /\ sess[s].pc = "idle"
    /\ \E args \in {CheckArgs(account_id, pricebook_id, lines)},
          racing \in {{t \in Procs \ {s} : Busy(t)}} :
          sess' = [t \in Procs |->
                     IF t = s
                     THEN Session(IF args = "ok" THEN "check" ELSE "done",
                                  account_id, pricebook_id, lines, key, 0, << >>,
                                  IF args = "ok" THEN "" ELSE args, 0,
                                  args = "ok" /\ racing # {})
                     ELSE IF args = "ok" /\ t \in racing
                     THEN [sess[t] EXCEPT !.raced = TRUE]
                     ELSE sess[t]]
    /\ UNCHANGED <<catalog, store, now, ret, hist>>

\* crud.py 552-563
CqCheck(s) ==
    /\ sess[s].pc = "check"
    /\ \E idem \in {IdempotencyStep(quotes, idempotency_keys, sess[s].key, now)} :
          /\ idempotency_keys' = idem.ledger
          /\ sess' = IF idem.raised # "" THEN Done(s, idem.raised, 0)
                     ELSE IF idem.hit # 0 THEN Done(s, "ok", idem.hit)
                     ELSE [sess EXCEPT ![s].pc = "validate"]
    /\ UNCHANGED <<catalog, quotes, quote_lines, now, ret, hist>>

\* crud.py 565-595
CqValidate(s) ==
    /\ sess[s].pc = "validate"
    /\ \E valid \in {ValidateRequest(accounts, pricebooks, skus, sess[s].account_id,
                                     sess[s].pricebook_id, sess[s].lines)} :
          sess' = IF valid # "ok" THEN Done(s, valid, 0)
                  ELSE [sess EXCEPT ![s].pc = "flush"]
    /\ UNCHANGED <<catalog, store, now, ret, hist>>

\* crud.py 597-606: the store gives the row an id no other row, committed or
\* flushed, has.
CqFlush(s) ==
    /\ sess[s].pc = "flush"
    /\ \E qid \in {NextId(DOMAIN quotes \cup {sess[t].qid : t \in Procs})} :
          /\ qid <= MaxQuotes
          /\ quotes' = FlushedQuotes(quotes, qid, sess[s].account_id, sess[s].pricebook_id)
          /\ sess' = [sess EXCEPT ![s].pc = "lines", ![s].qid = qid]
    /\ UNCHANGED <<catalog, quote_lines, idempotency_keys, now, ret, hist>>

\* crud.py 608-621: the line rows are added to the transaction, priced from
\* the SKUs as they are now.
CqLines(s) ==
    /\ sess[s].pc = "lines"
    /\ sess' = [sess EXCEPT ![s].pc = "commit",
                            ![s].pending = [n \in 1..Len(sess[s].lines) |->
                                              NewLine(skus, sess[s].qid, sess[s].lines[n])]]
    /\ UNCHANGED <<catalog, store, now, ret, hist>>

RECURSIVE InsertRows(_, _)
InsertRows(lineTable, rows) ==
    IF rows = << >> THEN lineTable
    ELSE InsertRows(lineTable @@ (NextId(DOMAIN lineTable) :> Head(rows)), Tail(rows))

\* crud.py 623-635: with a key, store_idempotency_key adds the ledger row and
\* commits the transaction, or rolls it back on a key that is already there;
\* without one, db.commit() commits the quote and its lines.
CqCommit(s) ==
    /\ sess[s].pc = "commit"
    /\ \E stored \in {IF sess[s].key = "" THEN [raised |-> "", ledger |-> idempotency_keys]
                      ELSE store_idempotency_key(idempotency_keys, sess[s].key, "quote",
                                                 sess[s].qid, now)} :
          IF stored.raised # ""
          THEN /\ sess' = [Done(s, stored.raised, 0) EXCEPT ![s].qid = 0, ![s].pending = << >>]
               /\ UNCHANGED store
          ELSE /\ Max(DOMAIN quote_lines) + Len(sess[s].pending) <= MaxLines
               /\ quotes' = quotes @@ (sess[s].qid :>
                                NewQuote(sess[s].account_id, sess[s].pricebook_id))
               /\ quote_lines' = InsertRows(quote_lines, sess[s].pending)
               /\ idempotency_keys' = stored.ledger
               /\ sess' = [Done(s, "ok", sess[s].qid) EXCEPT ![s].qid = 0]
    /\ UNCHANGED <<catalog, now, ret, hist>>

\* The client is given the result and may call again.
CqReturn(s) ==
    /\ sess[s].pc = "done"
    /\ sess' = [sess EXCEPT ![s] = IdleSession]
    /\ UNCHANGED <<catalog, store, now, ret, hist>>

NextRace ==
    \/ \E s \in Procs, p \in DOMAIN pricebooks, l \in SeqsUpTo(CreateLineInputs, MaxLines),
          k \in {"", "k1"} : CqBegin(s, 1, p, l, k)
    \/ \E s \in Procs : CqCheck(s)
    \/ \E s \in Procs : CqValidate(s)
    \/ \E s \in Procs : CqFlush(s)
    \/ \E s \in Procs : CqLines(s)
    \/ \E s \in Procs : CqCommit(s)
    \/ \E s \in Procs : CqReturn(s)

SpecRace == Init /\ [][NextRace]_vars

----------------------------------------------------------------------------
\* Idempotent creation.

RequestValid(c) ==
    /\ CheckArgs(c.account_id, c.pricebook_id, c.lines) = "ok"
    /\ ValidateRequest(accounts, pricebooks, skus, c.account_id, c.pricebook_id, c.lines) = "ok"

SamePayload(c, d) ==
    /\ c.account_id = d.account_id
    /\ c.pricebook_id = d.pricebook_id
    /\ c.lines = d.lines

\* C1: two create_quote calls in sequence with the same idempotency key and
\* the same (valid) payload return the same quote id, and the store then
\* holds one quote, with the request's lines, for that key.
C1_SameKeySamePayloadSameQuote ==
    \A i, j \in 1..Len(hist) :
        (/\ i < j
         /\ hist[i].key # ""
         /\ hist[j].key = hist[i].key
         /\ SamePayload(hist[i], hist[j])
         /\ RequestValid(hist[i]))
        => /\ hist[i].outcome = "ok"
           /\ hist[j].outcome = "ok"
           /\ hist[j].id = hist[i].id
           /\ hist[i].id \in DOMAIN quotes
           /\ Cardinality(LinesOf(quote_lines, hist[i].id)) = Len(hist[i].lines)
           /\ hist[j].quote_ids = hist[j - 1].quote_ids

\* C2: a create_quote call that presents a key under which a quote was
\* created before returns that quote and adds no quote and no line, whatever
\* account, pricebook and lines the call carries.
C2_KeyWinsOverPayload ==
    \A i, j \in 1..Len(hist) :
        (/\ i < j
         /\ hist[i].key # ""
         /\ hist[j].key = hist[i].key
         /\ RequestValid(hist[i]))
        => /\ hist[i].outcome = "ok"
           /\ hist[j].outcome = "ok"
           /\ hist[j].id = hist[i].id
           /\ hist[j].quote_ids = hist[j - 1].quote_ids
           /\ hist[j].line_ids = hist[j - 1].line_ids

----------------------------------------------------------------------------
\* Lines and pricebooks.

\* C7: the SKU of every quote line belongs to the pricebook of the line's
\* quote.
C7_LineSkuInQuotePricebook ==
    \A i \in DOMAIN quote_lines :
        /\ quote_lines[i].quote_id \in DOMAIN quotes
        /\ SkuInPricebook(skus, quote_lines[i].sku_id,
                          quotes[quote_lines[i].quote_id].pricebook_id)

----------------------------------------------------------------------------
\* Atomic creation and concurrent calls.

Created(s) == sess[s].pc = "done" /\ sess[s].outcome = "ok" /\ sess[s].pending # << >>

\* The rows of a quote are the rows its request asked for.
HasRequestedLines(q, lines) ==
    /\ Cardinality(LinesOf(quote_lines, q)) = Len(lines)
    /\ \A n \in 1..Len(lines) :
           \E i \in LinesOf(quote_lines, q) :
               /\ quote_lines[i].sku_id = lines[n].sku_id
               /\ quote_lines[i].qty = lines[n].qty
               /\ quote_lines[i].discount_pct = lines[n].discount_pct

C9_RacingCallsReturnSameQuote ==
    \A s, t \in Procs :
        (/\ s # t
         /\ sess[s].pc = "done" /\ sess[t].pc = "done"
         /\ sess[s].raced /\ sess[t].raced
         /\ sess[s].key # "" /\ sess[t].key = sess[s].key
         /\ RequestValid(sess[s]) /\ RequestValid(sess[t]))
        => /\ sess[s].outcome = "ok"
           /\ sess[t].outcome = "ok"
           /\ sess[s].id = sess[t].id

----------------------------------------------------------------------------
\* Status life cycle.

\* C3: once a quote is accepted it is accepted in every later state: no call
\* removes the quote or gives it another status.
C3_AcceptedIsFinal ==
    [][\A q \in DOMAIN quotes :
           quotes[q].status = "accepted"
           => q \in DOMAIN quotes' /\ quotes'[q].status = "accepted"]_vars

\* A call has just tried to take an accepted quote back to draft.
C3_Witness ==
    /\ ret.op = "update_quote_status"
    /\ ret.was = "accepted"
    /\ ret.status = "draft"
    /\ quotes[ret.quote_id].status = "accepted"

\* C4 as claimed: every update_quote_status call on an accepted quote fails
\* with the invalid-transition error, whatever status it asks for.
C4_EveryCallOnAcceptedFails ==
    (ret.op = "update_quote_status" /\ ret.was = "accepted")
    => ret.outcome = "invalid_transition"

\* C4 amended: on an accepted quote a call asking for draft or sent fails with
\* the invalid-transition error, and a call asking for accepted succeeds and
\* leaves the quote accepted.
C4_AcceptedRejectsOtherStatuses ==
    (ret.op = "update_quote_status" /\ ret.was = "accepted")
    => /\ quotes[ret.quote_id].status = "accepted"
       /\ ret.outcome = IF ret.status = "accepted" THEN "ok" ELSE "invalid_transition"

\* An accepted quote has just been set to accepted again.
C4_Witness ==
    /\ ret.op = "update_quote_status"
    /\ ret.was = "accepted"
    /\ ret.status = "accepted"
    /\ ret.outcome = "ok"

\* C5: a quote is created as a draft, and on a draft or sent quote every
\* update_quote_status call succeeds, leaves the quote in the status asked
\* for and changes nothing else.
C5_DraftAndSentMoveFreely ==
    [][/\ (ret'.op = "create_quote" /\ ret'.outcome = "ok" /\ ret'.id \notin DOMAIN quotes)
          => quotes'[ret'.id].status = "draft"
       /\ \A q \in DOMAIN quotes, s \in Statuses :
              (UpdateQuoteStatus(q, s) /\ quotes[q].status \in {"draft", "sent"})
              => /\ ret'.outcome = "ok"
                 /\ quotes' = [quotes EXCEPT ![q].status = s]
                 /\ UNCHANGED <<catalog, quote_lines, idempotency_keys>>]_vars

\* A sent quote has just been taken back to draft while another quote exists.
C5_Witness ==
    /\ ret.op = "update_quote_status"
    /\ ret.was = "sent"
    /\ ret.status = "draft"
    /\ ret.outcome = "ok"
    /\ Cardinality(DOMAIN quotes) > 1

----------------------------------------------------------------------------
\* Line edits and the status of the quote.

LineEdit(i) == DeleteQuoteLine(i) \/ \E l \in UpdateLineInputs : UpdateQuoteLine(i, l)

\* C6 as claimed: on a sent or accepted quote every line edit fails with the
\* not-editable error and leaves the lines as they were; on a draft quote
\* every edit with valid input succeeds.
C6_NonDraftEditsNotEditable ==
    [][\A q \in DOMAIN quotes :
           IF quotes[q].status # "draft"
           THEN /\ \A l \in LineInputs :
                       AddQuoteLine(q, l)
                       => ret'.outcome = "not_editable" /\ quote_lines' = quote_lines
                /\ \A i \in LinesOf(quote_lines, q) :
                       LineEdit(i)
                       => ret'.outcome = "not_editable" /\ quote_lines' = quote_lines
           ELSE /\ \A l \in LineInputs :
                       (AddQuoteLine(q, l) /\ SkuInPricebook(skus, l.sku_id, quotes[q].pricebook_id))
                       => ret'.outcome = "ok"
                /\ \A i \in LinesOf(quote_lines, q) : LineEdit(i) => ret'.outcome = "ok"]_vars

\* C6 amended: on a sent or accepted quote every line edit fails and leaves
\* the lines as they were; the error is the not-editable error, except that
\* add_quote_line checks the request's sku_id first and reports a
\* non-positive one as such. On a draft quote every edit with valid input
\* succeeds: an added line is a new row of that quote, an updated line has
\* the request's qty, unit_price and discount_pct, a deleted line is gone.
C6_NonDraftEditsFail ==
    [][\A q \in DOMAIN quotes :
           IF quotes[q].status # "draft"
           THEN /\ \A l \in LineInputs :
                       AddQuoteLine(q, l)
                       => /\ ret'.outcome = IF l.sku_id <= 0 THEN "invalid_sku_id"
                                            ELSE "not_editable"
                          /\ quote_lines' = quote_lines
                /\ \A i \in LinesOf(quote_lines, q) :
                       LineEdit(i)
                       => ret'.outcome = "not_editable" /\ quote_lines' = quote_lines
           ELSE /\ \A l \in LineInputs :
                       (AddQuoteLine(q, l) /\ SkuInPricebook(skus, l.sku_id, quotes[q].pricebook_id))
                       => /\ ret'.outcome = "ok"
                          /\ ret'.id \notin DOMAIN quote_lines
                          /\ DOMAIN quote_lines' = DOMAIN quote_lines \cup {ret'.id}
                          /\ quote_lines'[ret'.id].quote_id = q
                          /\ quote_lines'[ret'.id].sku_id = l.sku_id
                /\ \A i \in LinesOf(quote_lines, q) :
                       /\ DeleteQuoteLine(i)
                          => ret'.outcome = "ok" /\ DOMAIN quote_lines' = DOMAIN quote_lines \ {i}
                       /\ \A l \in UpdateLineInputs :
                              UpdateQuoteLine(i, l)
                              => /\ ret'.outcome = "ok"
                                 /\ quote_lines'[i].qty = l.qty
                                 /\ quote_lines'[i].unit_price = l.unit_price
                                 /\ quote_lines'[i].discount_pct = l.discount_pct]_vars

\* An update of a line of a sent quote has just been refused.
C6_Witness ==
    /\ ret.op = "update_quote_line"
    /\ ret.outcome = "not_editable"
    /\ ret.quote_id \in DOMAIN quotes
    /\ quotes[ret.quote_id].status = "sent"

----------------------------------------------------------------------------
\* create_quote over requests of every kind: ids that fail the id checks (0),
\* an account and a pricebook that do not exist, no lines, a SKU id, a qty
\* and a discount that fail the line checks, a SKU of another pricebook.

AccountIdInputs == {0, 1, 2}
PricebookIdInputs == {0, 1, 2, 3}

AnyLineInputs ==
    {Line(1, 1, None, 0), Line(2, 1, None, 0), Line(0, 1, None, 0),
     Line(1, 0, None, 0), Line(1, 1, None, DiscountOne)}

NextCreate ==
    \/ \E a \in AccountIdInputs, p \in PricebookIdInputs,
          l \in SeqsUpTo(AnyLineInputs, MaxLines), k \in {"", "k1"} :
           CreateQuote(a, p, l, k)
    \/ \E q \in QuoteIdInputs : DeleteQuote(q)

SpecCreate == Init /\ [][NextCreate]_vars

ValidationErrors ==
    {"invalid_account_id", "invalid_pricebook_id", "no_lines", "account_not_found",
     "pricebook_not_found", "invalid_sku_id", "invalid_qty", "invalid_discount",
     "sku_not_in_pricebook"}

----------------------------------------------------------------------------
\* Deleting a quote.

\* C12: delete_quote succeeds on a draft quote and on no other; it then
\* removes the quote and every line of it and leaves the other rows alone;
\* on a sent or accepted quote it fails and changes nothing. Every quote
\* line's quote_id is the id of a quote of the store, in every state.
C12_DeleteQuoteTakesItsLines ==
    /\ [](\A i \in DOMAIN quote_lines : quote_lines[i].quote_id \in DOMAIN quotes)
    /\ [][\A q \in DOMAIN quotes :
              DeleteQuote(q)
              => IF quotes[q].status = "draft"
                 THEN /\ ret'.outcome = "ok"
                      /\ quotes' = Remove(quotes, q)
                      /\ DOMAIN quote_lines' = DOMAIN quote_lines \ LinesOf(quote_lines, q)
                      /\ \A i \in DOMAIN quote_lines' : quote_lines'[i] = quote_lines[i]
                 ELSE /\ ret'.outcome = "not_deletable"
                      /\ UNCHANGED store]_vars

\* A draft quote has just been deleted and the lines of another quote are
\* still there.
C12_Witness ==
    /\ ret.op = "delete_quote"
    /\ ret.outcome = "ok"
    /\ ret.quote_id \notin DOMAIN quotes
    /\ DOMAIN quote_lines # {}

----------------------------------------------------------------------------
\* The ledger over time: keyed create_quote calls, lookups of a key, deleted
\* quotes, and the clock (hours) that datetime.utcnow() reads.

MaxHours == 36
ClockStep == 12

Tick ==
    /\ now + ClockStep <= MaxHours
    /\ now' = now + ClockStep
    /\ UNCHANGED <<catalog, store, ret, hist, sess>>

CheckIdempotencyKey(key) ==
    \E c \in {check_idempotency_key(idempotency_keys, key, now)} :
        /\ idempotency_keys' = c.ledger
        /\ ret' = Ret("check_idempotency_key",
                      IF c.raised # "" THEN c.raised ELSE "ok", c.value, 0, "", << >>)
        /\ UNCHANGED <<catalog, quotes, quote_lines, now, hist, sess>>

NextLedger ==
    \/ \E p \in DOMAIN pricebooks, l \in SeqsUpTo(CreateLineInputs, MaxLines), k \in KeyInputs :
           CreateQuoteLogged(1, p, l, k)
    \/ \E k \in KeyInputs : CheckIdempotencyKey(k)
    \/ \E q \in QuoteIdInputs : DeleteQuote(q)
    \/ Tick

SpecLedger == Init /\ [][NextLedger]_vars

\* The ledger has an entry for the key that has not passed its expires_at.
LiveKey(k) == \E r \in idempotency_keys : r.key = k /\ ~(r.expires_at < now)

\* C13: check_idempotency_key returns none for a key that has no entry or
\* whose entry has expired, and a valid create_quote presenting such a key
\* creates a new quote and records the key for it.
C13_MissingOrExpiredKeyIsAMiss ==
    [][/\ \A k \in KeyInputs \ {""} :
              (CheckIdempotencyKey(k) /\ ~LiveKey(k))
              => ret'.outcome = "ok" /\ ret'.id = 0
       /\ \A p \in DOMAIN pricebooks, l \in SeqsUpTo(CreateLineInputs, MaxLines),
             k \in KeyInputs \ {""} :
              (/\ CreateQuoteLogged(1, p, l, k)
               /\ ~LiveKey(k)
               /\ RequestValid([account_id |-> 1, pricebook_id |-> p, lines |-> l]))
              => /\ ret'.outcome = "ok"
                 /\ ret'.id \notin DOMAIN quotes
                 /\ ret'.id \in DOMAIN quotes'
                 /\ \E r \in idempotency_keys' :
                        r.key = k /\ r.resource_id = ret'.id]_vars

\* C14: a quote is created under a key; once that quote has been deleted, the
\* next valid create_quote with the key creates a new quote, and the ledger
\* then has exactly one entry for the key, which names the new quote.
C14_StaleKeyIsReplaced ==
    \A i, j \in 1..Len(hist) :
        (/\ i < j
         /\ hist[i].key # ""
         /\ hist[j].key = hist[i].key
         /\ RequestValid(hist[i])
         /\ RequestValid(hist[j]))
        => /\ hist[i].outcome = "ok"
           /\ hist[i].id \notin hist[j].had
              => /\ hist[j].outcome = "ok"
                 /\ hist[j].id \notin hist[j].had
                 /\ hist[j].id \in hist[j].quote_ids
                 /\ \E r \in hist[j].ledger :
                        /\ r.key = hist[j].key
                        /\ r.resource_id = hist[j].id
                        /\ \A o \in hist[j].ledger : o.key = r.key => o = r

----------------------------------------------------------------------------
\* Pricebook maintenance.

MaxPricebooks == 4

CreatePricebook(data) ==
    \E r \in {create_pricebook(data)} :
        /\ Max(DOMAIN r.pricebooks) <= MaxPricebooks
        /\ pricebooks' = r.pricebooks
        /\ ret' = Ret("create_pricebook", r.outcome, r.id, 0, "", << >>)
        /\ UNCHANGED <<accounts, skus, store, now, hist, sess>>

UpdatePricebook(pricebook_id, data) ==
    \E r \in {update_pricebook(pricebook_id, data)} :
        /\ pricebooks' = r.pricebooks
        /\ ret' = Ret("update_pricebook", r.outcome, r.id, 0, "", << >>)
        /\ UNCHANGED <<accounts, skus, store, now, hist, sess>>

DeletePricebook(pricebook_id) ==
    \E r \in {delete_pricebook(pricebook_id)} :
        /\ pricebooks' = r.pricebooks
        /\ ret' = Ret("delete_pricebook", r.outcome, pricebook_id, 0, "", << >>)
        /\ UNCHANGED <<accounts, skus, store, now, hist, sess>>

PricebookInputs ==
    {Pricebook(n, c, d) : n \in {"Standard", "Promo", "Partner", ""}, c \in {"USD", ""},
                          d \in BOOLEAN}

PricebookRowIdInputs == 0..MaxPricebooks

NextPricebooks ==
    \/ \E d \in PricebookInputs : CreatePricebook(d)
    \/ \E p \in PricebookRowIdInputs, d \in PricebookInputs : UpdatePricebook(p, d)
    \/ \E p \in PricebookRowIdInputs : DeletePricebook(p)

SpecPricebooks == Init /\ [][NextPricebooks]_vars

Defaults == {p \in DOMAIN pricebooks : pricebooks[p].is_default}

\* C15: at most one pricebook is the default, in every state; a call that
\* makes a pricebook the default leaves it the only one.
C15_AtMostOneDefault ==
    /\ Cardinality(Defaults) <= 1
    /\ (/\ ret.op \in {"create_pricebook", "update_pricebook"}
        /\ ret.outcome = "ok"
        /\ pricebooks[ret.id].is_default)
       => Defaults = {ret.id}

\* A pricebook other than the first default has just been made the default
\* by update_pricebook, among three pricebooks or more.
C15_Witness ==
    /\ ret.op = "update_pricebook"
    /\ ret.outcome = "ok"
    /\ ret.id # 1
    /\ Defaults = {ret.id}
    /\ Cardinality(DOMAIN pricebooks) >= 3

----------------------------------------------------------------------------
\* The document deriver (pdf.py, _derive_quote_doc). Decimal amounts are
\* exact: a price is in cents; a line total and the sums of line totals are
\* e4 ten-thousandths of a currency unit plus e20 units of 10^-20, the
\* second part being what the float complement of the discount brings in.

\* pdf.py 131: Decimal(str(1 - discount_pct)) with discount_pct a float of d
\* hundredths is (100 - d) hundredths plus FloatComplementDrift[d + 1] units
\* of 10^-18 (IEEE 754 double subtraction, shortest repr).
FloatComplementDrift ==
    <<
      0, 0, 0, 0, 0, 0, 0, -100, 0, 0, 0, 0, 0, 0, 0, 0, 0, 0,
      100, 0, 0, 0, 0, 0, 0, 0, 0, 0, 0, 0, 0, 0, -100, -100,
      -100, 0, 0, 0, 0, 0, 0, 100, 100, 100, 0, 0, 0, 0, 0, 0, 0,
      0, 0, 0, -40, -40, -50, 50, 40, 30, 0, 0, 0, 0, 0, 0, -30,
      -40, -50, 50, 40, 40, 0, 0, 0, 0, 0, -20, -30, -40, -40,
      -50, 50, 40, 30, 20, 0, 0, 0, -10, -20, -30, -40, -50, 50,
      44, 36, 27, 18, 9
    >>

\* quote.lines: the quote's line ids in id order.
RECURSIVE SortedIds(_)
SortedIds(ids) ==
    IF ids = {} THEN << >>
    ELSE LET m == CHOOSE x \in ids : \A y \in ids : x <= y
         IN  <<m>> \o SortedIds(ids \ {m})

\* The parents taken from the whole catalog.
ParentsInCatalog(lineIds) ==
    {skus[k].parent_sku_id : k \in {j \in DOMAIN skus : skus[j].parent_sku_id # 0}}

\* pdf.py 98-102: parent id -> present, for the SKUs of the quote's lines.
ParentsOnQuote(lineIds) ==
    {skus[quote_lines[i].sku_id].parent_sku_id :
        i \in {j \in lineIds : /\ quote_lines[j].sku_id \in DOMAIN skus
                                 /\ skus[quote_lines[j].sku_id].parent_sku_id # 0}}

\* pdf.py 107-149, one line.
LineDoc(index, line_id, parents) ==
    LET line == quote_lines[line_id]
        known == line.sku_id \in DOMAIN skus
        unit_price == IF line.unit_price.some /\ line.unit_price.v # 0
                      THEN line.unit_price.v
                      ELSE IF known THEN skus[line.sku_id].unit_price ELSE 0
        undiscount_line == unit_price * line.qty
    IN  [index |-> index,
         line_id |-> line_id,
         sku_code |-> IF known /\ skus[line.sku_id].code # "" THEN skus[line.sku_id].code
                      ELSE ToString(line.sku_id),
         product_name |-> IF known /\ skus[line.sku_id].name # "" THEN skus[line.sku_id].name
                          ELSE "SKU " \o ToString(line.sku_id),
         qty |-> line.qty,
         unit_price |-> unit_price,
         discount_pct |-> line.discount_pct,
         undiscounted |-> undiscount_line,
         line_total |-> [e4 |-> undiscount_line * (DiscountOne - line.discount_pct),
                         e20 |-> undiscount_line * FloatComplementDrift[line.discount_pct + 1]],
         indent_level |-> IF known /\ skus[line.sku_id].parent_sku_id # 0 THEN 1 ELSE 0,
         is_bundle_parent |-> known /\ line.sku_id \in parents,
         is_required_option |-> known /\ skus[line.sku_id].attributes.is_required_option,
         is_subscription |-> known /\ (\/ skus[line.sku_id].attributes.is_subscription
                                       \/ skus[line.sku_id].attributes.term_months # 0),
         term_months |-> IF known THEN skus[line.sku_id].attributes.term_months ELSE 0]

RECURSIVE SumOf(_, _)
SumOf(f, rows) == IF rows = << >> THEN 0 ELSE f[Head(rows)] + SumOf(f, Tail(rows))

\* The ratio cut off after its fourth decimal.
TruncateRatio(num, tail, den) == num \div den

\* Decimal.quantize(Decimal("0.0001")) of num / den under the default
\* context (ROUND_HALF_EVEN), in ten-thousandths; tail is the sign of what
\* num carries below its unit and decides an exact tie.
QuantizeRatio(num, tail, den) ==
    LET q == num \div den
        r == num % den
    IN  IF 2 * r > den THEN q + 1
        ELSE IF 2 * r < den THEN q
        ELSE IF tail > 0 THEN q + 1
        ELSE IF tail < 0 THEN q
        ELSE IF q % 2 = 0 THEN q ELSE q + 1

\* pdf.py 75-173
derive_quote_doc(quote_id) ==
    LET ids == SortedIds(LinesOf(quote_lines, quote_id))
        parents == ParentsOnQuote(LinesOf(quote_lines, quote_id))
        docs == [n \in 1..Len(ids) |-> LineDoc(n, ids[n], parents)]
        ns == [n \in 1..Len(ids) |-> n]
        undiscounted == SumOf([n \in 1..Len(ids) |-> docs[n].undiscounted], ns)
        subtotal == [e4 |-> SumOf([n \in 1..Len(ids) |-> docs[n].line_total.e4], ns),
                     e20 |-> SumOf([n \in 1..Len(ids) |-> docs[n].line_total.e20], ns)]
        total_discount_abs == [e4 |-> undiscounted * DiscountOne - subtotal.e4,
                               e20 |-> 0 - subtotal.e20]
    IN  [quote_id |-> quote_id,
         lines |-> docs,
         undiscounted |-> undiscounted,
         subtotal |-> subtotal,
         total_discount_abs |-> total_discount_abs,
         total_discount_pct |-> IF undiscounted > 0
                                THEN QuantizeRatio(total_discount_abs.e4 * 100,
                                                   total_discount_abs.e20, undiscounted)
                                ELSE 0,
         tax |-> [e4 |-> 0, e20 |-> 0],
         grand_total |-> subtotal]

\* The account and the pricebook not looked at.
generate_quote_pdf_unchecked(quote_id) ==
    IF quote_id \notin DOMAIN quotes THEN [outcome |-> "quote_not_found", doc |-> << >>]
    ELSE [outcome |-> "ok", doc |-> derive_quote_doc(quote_id)]

\* pdf.py 469-530, up to the view model: the quote, its account and its
\* pricebook are looked up, then the document is derived.
generate_quote_pdf(quote_id) ==
    IF quote_id \notin DOMAIN quotes THEN [outcome |-> "quote_not_found", doc |-> << >>]
    ELSE IF \/ quotes[quote_id].account_id \notin accounts
            \/ quotes[quote_id].pricebook_id \notin DOMAIN pricebooks
    THEN [outcome |-> "quote_data_incomplete", doc |-> << >>]
    ELSE [outcome |-> "ok", doc |-> derive_quote_doc(quote_id)]

\* ret also holds the document (doc) of a generate_quote_pdf call.
GenerateQuotePdf(quote_id) ==
    \E r \in {generate_quote_pdf(quote_id)} :
        /\ ret' = [op |-> "generate_quote_pdf", outcome |-> r.outcome, id |-> quote_id,
                   quote_id |-> quote_id, status |-> "", lines |-> << >>, was |-> "",
                   doc |-> r.doc]
        /\ UNCHANGED <<catalog, store, now, hist, sess>>

\* Lines at the catalog price, with a discount whose float complement is
\* exact (10) and one whose complement drifts (7), and with a price override
\* of 0.00; SKU 2 as a SKU of pricebook 1, with SKU 1 as its parent or with
\* none, and the SKUs at other prices.
DocLineInputs ==
    {Line(1, 1, None, 0), Line(1, 2, None, 10), Line(2, 1, None, 7), Line(1, 1, Some(0), 0)}

DocUpdateLineInputs == {Line(1, 3, None, 10)}

DocSkuInputs ==
    {Sku("WIDGET", 1, 1000, 0), Sku("WIDGET", 1, 1500, 0),
     Sku("GADGET", 1, 2000, 1), Sku("GADGET", 1, 2500, 0)}

NextDoc ==
    \/ \E l \in SeqsUpTo(DocLineInputs, MaxLines) : CreateQuote(1, 1, l, "")
    \/ \E i \in LineIdInputs, l \in DocUpdateLineInputs : UpdateQuoteLine(i, l)
    \/ \E k \in DOMAIN skus, d \in DocSkuInputs : UpdateSku(k, d)
    \/ \E q \in QuoteIdInputs : GenerateQuotePdf(q)

SpecDoc == Init /\ [][NextDoc]_vars

----------------------------------------------------------------------------
\* Prices and totals of the derived document.

Rendered == ret.op = "generate_quote_pdf" /\ ret.outcome = "ok"

\* C16: an update_sku that changes a SKU's catalog price changes no quote
\* line's stored unit_price and no unit_price or line_total of the document
\* derived for any quote.
C16_LinePriceIsASnapshot ==
    [][\A k \in DOMAIN skus, d \in DocSkuInputs :
           (UpdateSku(k, d) /\ d.unit_price # skus[k].unit_price)
           => /\ \A i \in DOMAIN quote_lines :
                     quote_lines'[i].unit_price = quote_lines[i].unit_price
              /\ \A q \in DOMAIN quotes :
                     \A n \in 1..Len(derive_quote_doc(q).lines) :
                         /\ derive_quote_doc(q)'.lines[n].unit_price
                              = derive_quote_doc(q).lines[n].unit_price
                         /\ derive_quote_doc(q)'.lines[n].line_total
                              = derive_quote_doc(q).lines[n].line_total]_vars

\* The exact sums of a document's lines.
DocSum(doc, part) ==
    SumOf([n \in 1..Len(doc.lines) |-> part[n]], [n \in 1..Len(doc.lines) |-> n])

DocSumsAddUp(doc) ==
    /\ doc.subtotal.e4 = DocSum(doc, [n \in 1..Len(doc.lines) |-> doc.lines[n].line_total.e4])
    /\ doc.subtotal.e20 = DocSum(doc, [n \in 1..Len(doc.lines) |-> doc.lines[n].line_total.e20])
    /\ doc.tax = [e4 |-> 0, e20 |-> 0]
    /\ doc.grand_total = doc.subtotal
    /\ doc.undiscounted
         = DocSum(doc, [n \in 1..Len(doc.lines) |-> doc.lines[n].unit_price * doc.lines[n].qty])
    /\ doc.subtotal.e4 + doc.total_discount_abs.e4 = doc.undiscounted * DiscountOne
    /\ doc.subtotal.e20 + doc.total_discount_abs.e20 = 0

\* total_discount_pct (ten-thousandths) is total_discount_abs / undiscounted.
PctIsTheRatio(doc) ==
    /\ doc.total_discount_pct * doc.undiscounted = doc.total_discount_abs.e4 * 100
    /\ doc.total_discount_abs.e20 = 0

\* C18 as claimed: in a derived document subtotal is the sum of the line
\* totals, tax is 0, grand_total is subtotal, subtotal + total_discount_abs
\* is the undiscounted total, and total_discount_pct is total_discount_abs /
\* undiscounted total when that total is positive and 0 otherwise.
C18_DocTotalsExactRatio ==
    Rendered
    => /\ DocSumsAddUp(ret.doc)
       /\ IF ret.doc.undiscounted > 0 THEN PctIsTheRatio(ret.doc)
          ELSE ret.doc.total_discount_pct = 0

\* C18 amended: the same sums, and total_discount_pct is that ratio rounded
\* to four decimal places (within half a ten-thousandth of it).
C18_DocTotalsRoundedRatio ==
    Rendered
    => /\ DocSumsAddUp(ret.doc)
       /\ IF ret.doc.undiscounted > 0
          THEN LET diff == ret.doc.total_discount_pct * ret.doc.undiscounted
                             - ret.doc.total_discount_abs.e4 * 100
               IN  2 * diff <= ret.doc.undiscounted /\ 2 * (0 - diff) <= ret.doc.undiscounted
          ELSE ret.doc.total_discount_pct = 0

\* A document of two lines whose discount ratio is rounded up.
C18_Witness ==
    /\ Rendered
    /\ Len(ret.doc.lines) = 2
    /\ ret.doc.undiscounted > 0
    /\ ret.doc.total_discount_pct * ret.doc.undiscounted > ret.doc.total_discount_abs.e4 * 100

\* C19: in a derived document each line_total is unit_price * qty *
\* (1 - discount_pct) exactly, an amount of whole cents when the discount is
\* in tenths (10.00 * 10 at discount 0.10 is 90.00).
C19_LineTotalsExact ==
    Rendered
    => \A n \in 1..Len(ret.doc.lines) :
           LET l == ret.doc.lines[n]
           IN  /\ l.line_total.e4 = l.unit_price * l.qty * (DiscountOne - l.discount_pct)
               /\ l.line_total.e20 = 0

\* C20: in a derived document a line is a bundle parent exactly when the SKU
\* of some line of the same quote has this line's SKU as its parent, and a
\* line has indent_level 1 exactly when its SKU has a parent.
C20_BundleFlagsFromQuoteLines ==
    Rendered
    => \A n \in 1..Len(ret.doc.lines) :
           LET l == ret.doc.lines[n]
               sku_id == quote_lines[l.line_id].sku_id
           IN  /\ l.is_bundle_parent
                    <=> \E j \in LinesOf(quote_lines, ret.quote_id) :
                            /\ quote_lines[j].sku_id \in DOMAIN skus
                            /\ skus[quote_lines[j].sku_id].parent_sku_id = sku_id
               /\ l.indent_level = IF skus[sku_id].parent_sku_id # 0 THEN 1 ELSE 0

\* A document with parent and child both on the quote.
C20_Witness ==
    /\ Rendered
    /\ \E n, m \in 1..Len(ret.doc.lines) :
           /\ ret.doc.lines[n].is_bundle_parent
           /\ ret.doc.lines[m].indent_level = 1
           /\ skus[quote_lines[ret.doc.lines[m].line_id].sku_id].parent_sku_id
                = quote_lines[ret.doc.lines[n].line_id].sku_id

----------------------------------------------------------------------------
\* Line requests as the handlers receive them: a QuoteLineCreate object,
\* which exists only if its fields pass the schema's constraints.

\* No constraint at all.
Unvalidated(line) == TRUE

\* schemas.py 117-127: qty ge=1, unit_price ge=0 when given, discount_pct
\* ge=0.0 and lt=1.0.
QuoteLineCreate(line) ==
    /\ line.qty >= 1
    /\ line.unit_price.some => line.unit_price.v >= 0
    /\ line.discount_pct >= 0
    /\ line.discount_pct < DiscountOne

\* schemas.py 146-148 (lines: min_length=1), then create_quote.
CreateQuoteRequest(account_id, pricebook_id, lines) ==
    /\ Len(lines) >= 1
    /\ \A n \in 1..Len(lines) : QuoteLineCreate(lines[n])
    /\ CreateQuote(account_id, pricebook_id, lines, "")

AddQuoteLineRequest(quote_id, line) ==
    /\ QuoteLineCreate(line)
    /\ AddQuoteLine(quote_id, line)

UpdateQuoteLineRequest(line_id, line) ==
    /\ QuoteLineCreate(line)
    /\ UpdateQuoteLine(line_id, line)

\* Field values inside the ranges, at their edges (qty 1, price 0.00,
\* discount 0 and 0.99) and outside them (qty 0, price -0.01, discount 1.0
\* and -0.10).
RawLineInputs ==
    {Line(1, 1, None, 0), Line(1, 2, Some(0), DiscountOne - 1), Line(2, 1, Some(500), 10),
     Line(1, 0, None, 0), Line(1, 1, Some(0 - 1), 0), Line(1, 1, None, DiscountOne),
     Line(1, 1, None, 0 - 10)}

NextLines ==
    \/ \E p \in DOMAIN pricebooks, l \in SeqsUpTo(RawLineInputs, MaxLines) :
           CreateQuoteRequest(1, p, l)
    \/ \E q \in QuoteIdInputs, l \in RawLineInputs : AddQuoteLineRequest(q, l)
    \/ \E i \in LineIdInputs, l \in RawLineInputs : UpdateQuoteLineRequest(i, l)

SpecLines == Init /\ [][NextLines]_vars

\* C17: every quote line of the store has qty >= 1, 0 <= discount_pct < 1
\* and, when it has a unit_price, unit_price >= 0.
C17_LineFieldsInRange ==
    \A i \in DOMAIN quote_lines :
        /\ quote_lines[i].qty >= 1
        /\ quote_lines[i].discount_pct >= 0
        /\ quote_lines[i].discount_pct < DiscountOne
        /\ quote_lines[i].unit_price.some => quote_lines[i].unit_price.v >= 0

\* update_quote_line has just given a line the largest discount below 1 and
\* a price of 0.00.
C17_Witness ==
    /\ ret.op = "update_quote_line"
    /\ ret.outcome = "ok"
    /\ quote_lines[ret.id].discount_pct = DiscountOne - 1
    /\ quote_lines[ret.id].unit_price = Some(0)

----------------------------------------------------------------------------
\* Rendering as a function of the stored rows. generate_quote_pdf reads the
\* quote, account, pricebook, line and SKU tables and writes none of them, so
\* the tables are its inputs: an account or a pricebook that is or is not
\* there, SKU 1 and SKU 2 (a required subscription option under SKU 1) each
\* there or not, and a quote whose lines hold no price, the price 0.00 or
\* the price 5.00.

\* A SKU row with its name and attributes given.
SkuWith(code, name, pricebook_id, unit_price, parent_sku_id, attributes) ==
    [code |-> code, pricebook_id |-> pricebook_id, unit_price |-> unit_price,
     parent_sku_id |-> parent_sku_id, name |-> name, attributes |-> attributes]

RenderSkuTables ==
    LET widget == 1 :> SkuWith("WIDGET", "Widget", 1, 1000, 0, NoAttributes)
        support == 2 :> SkuWith("SUPPORT", "Support plan", 1, 2000, 1,
                                [is_required_option |-> TRUE, is_subscription |-> TRUE,
                                 term_months |-> 12])
    IN  {widget @@ support, widget, support, << >>}

RenderLineRows ==
    {[quote_id |-> 1, sku_id |-> k, qty |-> 1, unit_price |-> p, discount_pct |-> 0] :
        k \in {1, 2}, p \in {None, Some(0), Some(500)}}

InitRender ==
    /\ accounts \in {{1}, {}}
    /\ pricebooks \in {(1 :> Pricebook("Standard", "USD", TRUE))
                          @@ (2 :> Pricebook("European", "EUR", FALSE)),
                       (2 :> Pricebook("European", "EUR", FALSE))}
    /\ skus \in RenderSkuTables
    /\ \/ quotes = << >> /\ quote_lines = << >>
       \/ /\ quotes = (1 :> NewQuote(1, 1))
          /\ quote_lines \in SeqsUpTo(RenderLineRows, MaxLines)
    /\ idempotency_keys = {}
    /\ now = 0
    /\ ret = Ret("", "", 0, 0, "", << >>)
    /\ hist = << >>
    /\ sess = [p \in Procs |-> IdleSession]

NextRender == \E q \in QuoteIdInputs : GenerateQuotePdf(q)

SpecRender == InitRender /\ [][NextRender]_vars

\* The document line of a quote line whose SKU row is missing.
Placeholder(d) ==
    LET line == quote_lines[d.line_id]
    IN  /\ d.product_name = "SKU " \o ToString(line.sku_id)
        /\ d.unit_price = (IF line.unit_price.some THEN line.unit_price.v ELSE 0)
        /\ d.indent_level = 0
        /\ ~d.is_bundle_parent
        /\ ~d.is_required_option
        /\ ~d.is_subscription
        /\ d.term_months = 0

----------------------------------------------------------------------------
\* The order of create_quote's checks. hist holds the last request alone.

CreateQuoteAsked(account_id, pricebook_id, lines, key) ==
    /\ CreateQuoteOp(account_id, pricebook_id, lines, key)
    /\ hist' = <<[account_id |-> account_id, pricebook_id |-> pricebook_id,
                  lines |-> lines, key |-> key]>>

\* A line that passes every check, and lines that fail the SKU id check and
\* all after it, the quantity check and all after it, the discount check
\* and the pricebook check.
OrderLineInputs ==
    {Line(1, 1, None, 0), Line(0, 0, None, DiscountOne), Line(1, 0, None, DiscountOne),
     Line(2, 1, None, DiscountOne)}

NextOrder ==
    \E a \in AccountIdInputs, p \in PricebookIdInputs,
       l \in SeqsUpTo(OrderLineInputs, MaxLines), k \in {"", "k1"} :
        CreateQuoteAsked(a, p, l, k)

SpecOrder == Init /\ [][NextOrder]_vars

\* The error of the first check of a list of <<failed, error>> pairs that
\* failed, "ok" when none did.
RECURSIVE FirstFailing(_)
FirstFailing(checks) ==
    IF checks = << >> THEN "ok"
    ELSE IF Head(checks)[1] THEN Head(checks)[2]
    ELSE FirstFailing(Tail(checks))

LineChecks(line, pricebook_id) ==
    << <<line.sku_id <= 0, "invalid_sku_id">>,
       <<line.qty < 1, "invalid_qty">>,
       <<line.discount_pct < 0 \/ line.discount_pct >= DiscountOne, "invalid_discount">>,
       <<~(line.sku_id \in DOMAIN skus /\ skus[line.sku_id].pricebook_id = pricebook_id),
         "sku_not_in_pricebook">> >>

\* The checks of every line, line by line.
AllLineChecks(lines, pricebook_id) ==
    [n \in 1..(4 * Len(lines)) |->
        LineChecks(lines[((n - 1) \div 4) + 1], pricebook_id)[((n - 1) % 4) + 1]]

\* Each id checked for being positive and for existing before the next
\* thing is looked at.
IdByIdOrder(req) ==
    << <<req.account_id <= 0, "invalid_account_id">>,
       <<req.account_id \notin accounts, "account_not_found">>,
       <<req.pricebook_id <= 0, "invalid_pricebook_id">>,
       <<req.pricebook_id \notin DOMAIN pricebooks, "pricebook_not_found">>,
       <<req.lines = << >>, "no_lines">> >>
    \o AllLineChecks(req.lines, req.pricebook_id)

\* The shape of the request checked first.
ShapeChecks(req) ==
    << <<req.account_id <= 0, "invalid_account_id">>,
       <<req.pricebook_id <= 0, "invalid_pricebook_id">>,
       <<req.lines = << >>, "no_lines">> >>

ShapeFirstOrder(req) ==
    ShapeChecks(req)
    \o << <<req.account_id \notin accounts, "account_not_found">>,
          <<req.pricebook_id \notin DOMAIN pricebooks, "pricebook_not_found">> >>
    \o AllLineChecks(req.lines, req.pricebook_id)

Asked == hist # << >> /\ ret.op = "create_quote"

\* C22 as stated: create_quote ends with the error of the first failing
\* check in the order account_id positive and account exists, pricebook_id
\* positive and pricebook exists, lines non-empty, then per line sku_id
\* positive, qty >= 1, discount in [0,1) and SKU in the pricebook.
C22_ErrorInIdByIdOrder ==
    (Asked /\ hist[1].key = "") => ret.outcome = FirstFailing(IdByIdOrder(hist[1]))

\* C22 as the code has it: the order is account_id positive, pricebook_id
\* positive, lines non-empty, then account exists, pricebook exists, then
\* the checks of each line. A call without a key ends with the first failing
\* check's error (or succeeds); a call with a key ends with the error of the
\* first failing check of the first three, and with no other validation
\* error than the first failing one.
C22_ErrorInShapeFirstOrder ==
    Asked =>
        /\ hist[1].key = "" => ret.outcome = FirstFailing(ShapeFirstOrder(hist[1]))
        /\ FirstFailing(ShapeChecks(hist[1])) # "ok"
               => ret.outcome = FirstFailing(ShapeChecks(hist[1]))
        /\ ret.outcome \in ValidationErrors
               => ret.outcome = FirstFailing(ShapeFirstOrder(hist[1]))

\* An account that does not exist asked for together with pricebook_id 0:
\* the pricebook id is what is reported.
C22_Witness ==
    /\ Asked
    /\ hist[1].account_id > 0
    /\ hist[1].account_id \notin accounts
    /\ hist[1].pricebook_id = 0
    /\ ret.outcome = "invalid_pricebook_id"

----------------------------------------------------------------------------
\* The ledger operations called on their own.

\* crud.py 896-917, called for a quote id and committed.
StoreIdempotencyKey(key, resource_id) ==
    \E r \in {store_idempotency_key(idempotency_keys, key, "quote", resource_id, now)} :
        /\ idempotency_keys' = r.ledger
        /\ ret' = Ret("store_idempotency_key",
                      IF r.raised # "" THEN r.raised ELSE "ok", resource_id, 0, "", << >>)
        /\ UNCHANGED <<catalog, quotes, quote_lines, now, hist, sess>>

NextPurge ==
    \/ NextLedger
    \/ \E k \in KeyInputs, q \in QuoteIdInputs : StoreIdempotencyKey(k, q)

SpecPurge == Init /\ [][NextPurge]_vars

NoExpiredEntry == \A r \in idempotency_keys : ~(r.expires_at < now)

\* C23: a check_idempotency_key or store_idempotency_key call for a key
\* returns with no expired entry left in the ledger, and a store of a key
\* that has no live entry (none, or an expired one) succeeds and records the
\* key.
C23_LedgerCallsPurgeFirst ==
    [][/\ \A k \in KeyInputs \ {""} :
              CheckIdempotencyKey(k) => ret'.outcome = "ok" /\ NoExpiredEntry'
       /\ \A k \in KeyInputs \ {""}, q \in QuoteIdInputs \ {0} :
              (StoreIdempotencyKey(k, q) /\ ~LiveKey(k))
              => /\ ret'.outcome = "ok"
                 /\ NoExpiredEntry'
                 /\ \E r \in idempotency_keys' : r.key = k /\ r.resource_id = q]_vars

----------------------------------------------------------------------------
\* SKU maintenance.

MaxSkus == 3

CreateSku(data) ==
    \E r \in {create_sku(data)} :
        /\ Max(DOMAIN r.skus) <= MaxSkus
        /\ skus' = r.skus
        /\ ret' = Ret("create_sku", r.outcome, r.id, 0, "", << >>)
        /\ UNCHANGED <<accounts, pricebooks, store, now, hist, sess>>

DeleteSku(sku_id) ==
    \E r \in {delete_sku(sku_id)} :
        /\ skus' = r.skus
        /\ ret' = Ret("delete_sku", r.outcome, sku_id, 0, "", << >>)
        /\ UNCHANGED <<accounts, pricebooks, store, now, hist, sess>>

SkuRowIdInputs == 0..MaxSkus

\* SKUs of pricebook 1 under each possible parent, and one with no code.
SkuTreeInputs ==
    {Sku(c, 1, 1000, k) : c \in {"WIDGET", "GADGET", "BUNDLE"}, k \in SkuRowIdInputs}
    \cup {Sku("", 1, 1000, 0)}

NextSkus ==
    \/ \E d \in SkuTreeInputs : CreateSku(d)
    \/ \E k \in SkuRowIdInputs, d \in SkuTreeInputs : UpdateSku(k, d)
    \/ \E k \in SkuRowIdInputs : DeleteSku(k)

SpecSkus == Init /\ [][NextSkus]_vars

\* The SKU reached from k by following n parent links, 0 when the chain ends
\* before.
RECURSIVE Ancestor(_, _)
Ancestor(k, n) ==
    IF n = 0 \/ k \notin DOMAIN skus THEN k
    ELSE Ancestor(skus[k].parent_sku_id, n - 1)

\* C24: the parent_sku_id relation is acyclic in every state reached by
\* create_sku, update_sku and delete_sku calls: no SKU is its own parent and
\* no chain of parent links comes back to the SKU it started from.
C24_ParentRelationAcyclic ==
    \A k \in DOMAIN skus, n \in 1..MaxSkus : Ancestor(k, n) # k

----------------------------------------------------------------------------
\* Deleting what quotes refer to.

DeleteAccount(account_id) ==
    \E r \in {delete_account(account_id)} :
        /\ accounts' = r.accounts
        /\ ret' = Ret("delete_account", r.outcome, account_id, 0, "", << >>)
        /\ UNCHANGED <<pricebooks, skus, store, now, hist, sess>>

NextRefs ==
    \/ \E p \in DOMAIN pricebooks, l \in SeqsUpTo(CreateLineInputs, MaxLines) :
           CreateQuote(1, p, l, "")
    \/ \E q \in QuoteIdInputs, l \in LineInputs : AddQuoteLine(q, l)
    \/ \E q \in QuoteIdInputs : DeleteQuote(q)
    \/ \E i \in LineIdInputs : DeleteQuoteLine(i)
    \/ \E a \in AccountIdInputs : DeleteAccount(a)
    \/ \E p \in PricebookIdInputs : DeletePricebook(p)
    \/ \E k \in SkuRowIdInputs : DeleteSku(k)

SpecRefs == Init /\ [][NextRefs]_vars

\* C25: in every state each quote's account_id is an account, its
\* pricebook_id a pricebook, and each quote line's sku_id a SKU; a
\* delete_account, delete_pricebook or delete_sku call that ends with the
\* row still referred to has failed.
C25_ReferencesResolve ==
    /\ \A q \in DOMAIN quotes :
           /\ quotes[q].account_id \in accounts
           /\ quotes[q].pricebook_id \in DOMAIN pricebooks
    /\ \A i \in DOMAIN quote_lines : quote_lines[i].sku_id \in DOMAIN skus
    /\ (/\ ret.op = "delete_account"
        /\ \E q \in DOMAIN quotes : quotes[q].account_id = ret.id) => ret.outcome = "in_use"
    /\ (/\ ret.op = "delete_pricebook"
        /\ \/ \E q \in DOMAIN quotes : quotes[q].pricebook_id = ret.id
           \/ \E k \in DOMAIN skus : skus[k].pricebook_id = ret.id) => ret.outcome = "in_use"
    /\ (/\ ret.op = "delete_sku"
        /\ \E i \in DOMAIN quote_lines : quote_lines[i].sku_id = ret.id)
           => ret.outcome = "in_use"

\* delete_sku has just been refused for a SKU a quote line refers to, in a
\* store from which the other SKU and its pricebook have been deleted.
C25_Witness ==
    /\ ret.op = "delete_sku"
    /\ ret.outcome = "in_use"
    /\ \E i \in DOMAIN quote_lines : quote_lines[i].sku_id = ret.id
    /\ Cardinality(DOMAIN skus) = 1
    /\ Cardinality(DOMAIN pricebooks) = 1

----------------------------------------------------------------------------
\* The price the deriver shows for a line.

\* The stored price when the line has one, else the SKU's price, else zero.
StoredElseCatalogElseZero(line) ==
    IF line.unit_price.some THEN line.unit_price.v
    ELSE IF line.sku_id \in DOMAIN skus THEN skus[line.sku_id].unit_price
    ELSE 0

\* C26: the document derived for a quote shows, for each line, the line's
\* stored unit_price whenever the line has one (0.00 included), the SKU's
\* catalog price only when the line has none, and zero only when the SKU is
\* missing as well.
C26_StoredPriceWins ==
    [][\A q \in QuoteIdInputs :
           (GenerateQuotePdf(q) /\ ret'.outcome = "ok")
           => \A n \in DOMAIN ret'.doc.lines :
                  ret'.doc.lines[n].unit_price
                      = StoredElseCatalogElseZero(quote_lines[ret'.doc.lines[n].line_id])]_vars

----------------------------------------------------------------------------
\* The price a line is stored with.

\* C27: every quote line of the store has a unit_price, in every state:
\* create_quote, add_quote_line and update_quote_line each store the
\* request's price when it gives one and the SKU's price when it gives none.
C27_EveryLineHasAPrice ==
    \A i \in DOMAIN quote_lines : quote_lines[i].unit_price.some

----------------------------------------------------------------------------
\* A line edit racing a status change or a delete of its quote. Each call
\* runs in a session of its own (main.py: one db session per request). A
\* line edit reads the line and the quote and checks them, then commits its
\* write; nothing in crud.py locks the quote row between the two
\* (no with_for_update), so another session's commit can come in between.
\* update_quote_status and delete_quote are taken as one step each.

Editors == {"p1"}

EditOps == {"add_quote_line", "update_quote_line", "delete_quote_line"}

\* An edit whose checks have passed: target is the quote id of an add and the
\* line id of an update or a delete, row the QuoteLine an add has built.
EditSession(op, target, line, row) ==
    [pc |-> "edit", op |-> op, target |-> target, line |-> line, row |-> row]

\* The checks of the edit (crud.py 777-789, 818-833, 852-863) against what
\* is committed now.
EditChecks(op, target, line) ==
    IF op = "add_quote_line" THEN add_quote_line(target, line).outcome
    ELSE IF op = "update_quote_line" THEN update_quote_line(target, line).outcome
    ELSE delete_quote_line(target).outcome

\* The edit up to its commit: a failed check ends the call.
EditBegin(s, op, target, line) ==
    /\ sess[s].pc = "idle"
    /\ \E c \in {EditChecks(op, target, line)} :
          IF c = "ok"
          THEN /\ sess' = [sess EXCEPT ![s] =
                              EditSession(op, target, line,
                                          IF op = "add_quote_line"
                                          THEN NewLine(skus, target, line) ELSE << >>)]
               /\ UNCHANGED ret
          ELSE /\ ret' = Ret(op, c, 0, 0, "", << >>)
               /\ UNCHANGED sess
    /\ UNCHANGED <<catalog, store, now, hist>>

\* crud.py 802-809, 840-847, 865-870: db.commit() sends the INSERT, the
\* UPDATE or the DELETE of the one line row and commits it; the quote row is
\* not read again. An INSERT for a quote that is gone is refused when the
\* store enforces foreign keys (enforced) and goes through when it does
\* not; an UPDATE that matches no row raises; a DELETE that matches no row
\* does nothing.
CommitEdit(e, enforced) ==
    IF e.op = "add_quote_line"
    THEN IF e.target \notin DOMAIN quotes /\ enforced
         THEN [outcome |-> "integrity_error", id |-> 0, quote_lines |-> quote_lines]
         ELSE [outcome |-> "ok", id |-> NextId(DOMAIN quote_lines),
               quote_lines |-> quote_lines @@ (NextId(DOMAIN quote_lines) :> e.row)]
    ELSE IF e.op = "update_quote_line"
    THEN IF e.target \notin DOMAIN quote_lines
         THEN [outcome |-> "StaleDataError", id |-> 0, quote_lines |-> quote_lines]
         ELSE [outcome |-> "ok", id |-> e.target,
               quote_lines |-> [quote_lines EXCEPT ![e.target] =
                   [@ EXCEPT !.qty = e.line.qty, !.unit_price = e.line.unit_price,
                             !.discount_pct = e.line.discount_pct]]]
    ELSE [outcome |-> "ok", id |-> e.target,
          quote_lines |-> IF e.target \in DOMAIN quote_lines
                          THEN Remove(quote_lines, e.target) ELSE quote_lines]

EditCommit(s) ==
    /\ sess[s].pc = "edit"
    /\ \E enforced \in BOOLEAN :
       \E r \in {CommitEdit(sess[s], enforced)} :
          /\ Max(DOMAIN r.quote_lines) <= MaxLines
          /\ quote_lines' = r.quote_lines
          /\ ret' = Ret(sess[s].op, r.outcome, r.id, 0, "", << >>)
    /\ sess' = [sess EXCEPT ![s] = IdleSession]
    /\ UNCHANGED <<catalog, quotes, idempotency_keys, now, hist>>

NextEdits ==
    \/ \E l \in SeqsUpTo({Line(1, 1, None, 0)}, MaxLines) : CreateQuote(1, 1, l, "")
    \/ \E q \in QuoteIdInputs, s \in Statuses : UpdateQuoteStatus(q, s)
    \/ \E q \in QuoteIdInputs : DeleteQuote(q)
    \/ \E s \in Editors, op \in EditOps, t \in LineIdInputs, l \in UpdateLineInputs :
           EditBegin(s, op, t, l)
    \/ \E s \in Editors : EditCommit(s)

SpecEdits == Init /\ [][NextEdits]_vars

\* The line rows of a quote.
LineRows(q) == [i \in LinesOf(quote_lines, q) |-> quote_lines[i]]

\* C28: whatever way a line edit interleaves with update_quote_status and
\* delete_quote calls on its quote, a step changes the lines of a quote only
\* when that quote exists and is a draft at that step, or is created by it:
\* no line is added to, changed on or removed from a quote that has left
\* draft or is gone.
C28_LineChangesOnlyOnDrafts ==
    [][\A q \in QuoteIdInputs \ {0} :
           LineRows(q)' # LineRows(q)
           => \/ q \in DOMAIN quotes /\ quotes[q].status = "draft"
              \/ q \notin DOMAIN quotes /\ ret'.op = "create_quote" /\ ret'.id = q]_vars

----------------------------------------------------------------------------
\* Accepted quotes under every operation, one call after the other: the
\* quote operations of Next, a change of a SKU's price, and the deletes of
\* accounts, pricebooks and SKUs.

FrozenSkuInputs == {Sku("WIDGET", 1, 1500, 0)}

NextFrozen ==
    \/ Next
    \/ \E k \in DOMAIN skus, d \in FrozenSkuInputs : UpdateSku(k, d)
    \/ \E a \in AccountIdInputs : DeleteAccount(a)
    \/ \E p \in PricebookIdInputs : DeletePricebook(p)
    \/ \E k \in SkuRowIdInputs : DeleteSku(k)

SpecFrozen == Init /\ [][NextFrozen]_vars

\* C29: a quote that is accepted is still there after any call, and so is
\* every one of its lines, with the same sku_id, qty, unit_price and
\* discount_pct, and no line more; so its lines stay as they were when it was
\* accepted.
C29_AcceptedQuoteFrozen ==
    [][\A q \in DOMAIN quotes :
           quotes[q].status = "accepted"
           => q \in DOMAIN quotes' /\ LineRows(q)' = LineRows(q)]_vars

\* A change of a line of an accepted quote has just been refused, and the
\* line is as create_quote stored it.
C29_Witness ==
    /\ ret.op = "update_quote_line"
    /\ ret.outcome = "not_editable"
    /\ ret.quote_id \in DOMAIN quotes
    /\ quotes[ret.quote_id].status = "accepted"
    /\ ret.id \in LinesOf(quote_lines, ret.quote_id)
    /\ quote_lines[ret.id].qty = 1

====
